---- MODULE Spec2Model ----
(***************************************************************************)
(* milk-streamtelemetry-resample: the manifest builder (src/src/main.c)    *)
(* and the cube assembler (src/unnamed/part_002, the current applyts.c;    *)
(* src/src/applyts.c is the same accumulator without the path resolver).   *)
(*                                                                         *)
(* Numbers.  Times are whole ticks.  A resampled coordinate r = t/dt is    *)
(* kept as its numerator t over the common denominator dt (ticks per       *)
(* output plane), so plane k spans the ticks [k*dt, (k+1)*dt).  Pixel      *)
(* accumulators are kept as numerators over dt as well, and arithmetic is  *)
(* exact (float32 rounding is not modelled).  An image plane is one pixel. *)
(***************************************************************************)
EXTENDS Integers, Sequences, FiniteSets, TLC

\* ------------------------------------------------------------------ bounds
\* Largest number of records of a manifest handed to the cube assembler.
MaxRecs == 2
\* Resampled start numerators of a record range over -MaxLead .. MaxRs.
MaxLead == 1
MaxRs == 2
\* Frame durations (numerators) range over 0 .. MaxDur.
MaxDur == 4
\* At most this many injected I/O failures (open, read, write) per run.
MaxFaults == 1

\* Timing files found by one directory walk, and lines over all of them.
MaxFiles == 2
MaxRows == 4
\* Times in timing files and file names range over 0 .. MaxT.
MaxT == 4
\* The query window [WinStart, WinEnd) of the runs on arbitrary timing files.
WinStart == 1
WinEnd == 3
\* Times of the runs on well-formed telemetry range over 0 .. MaxTime.
MaxTime == 5
MaxCaptures == 3
\* Ticks in a day of the directory walk, and entries over its directories.
DayLen == 2
MaxEntries == 2
\* Largest number of timing files of a walk whose file selection is checked.
MaxScan == 3
\* Largest number of records of a gap-free manifest of flat-field frames.
MaxChain == 3

\* Output sampling intervals, in ticks per plane.
DtSet == {1, 2}
\* Source names appearing in column 4 of a manifest.
Srcs == {"a", "b"}

VARIABLES
    stage,              \* "build" (manifest builder) or "apply" (cube assembler)
    dt,                 \* ticks per output plane (argv[5] of stage 1)
    tstart, tend,       \* the query window, in ticks
    found,              \* FileEntry list the directory walk collected
    disk,               \* filepath -> the lines of that timing file
    files,              \* the scan list scan_files returns
    fi,                 \* index in files of the next file process_telemetry opens
    frame_index,
    prev_frame_end,     \* -1 while no data row has been read
    manifest,           \* the rows written to <sname>.resample.txt
    unopened,           \* filepaths whose fopen failed
    fout,               \* the manifest file: "NULL", "open" or "closed"
    lines,              \* the parsed data rows of the manifest, in file order
    pc,                 \* position in main()
    exitcode,           \* "none" while running; "0", "1" or "status"
    max_out_idx,
    rec,                \* index in lines of the next row pass 2 reads
    current_fits_name,
    curr_infptr,        \* "NULL" or the src whose image cube is open
    active_frames,      \* the linked list, head first: <<[idx, data], ...>>
    cube,               \* the output image: plane index -> pixel numerator
    written,            \* log of the plane indices written, in call order
    skipped,            \* indices of the records skipped on open/read failure
    faults,             \* number of injected I/O failures so far
    flat,               \* TRUE when every pixel of every input plane is 1
    resample_f,         \* the manifest stage 2 reads (FILE *f): "NULL", "open", "closed"
    outfptr,            \* the output image: "NULL", "open" or "closed"
    inputs_open,        \* number of input image cubes the image store holds open
    unreadable,         \* the srcs whose image cube cannot be opened, at any attempt
    failed_write,       \* <<>>, or <<k>> once the write of plane k has failed
    dirs,               \* day -> the names in <teldir>/YYYYMMDD(day)/<sname>/
    missing,            \* the days whose directory does not exist
    t_scan_start,       \* the day the directory walk stands on
    listed              \* the days whose directory the walk tried to open, in order

bvars == <<tstart, tend, found, disk, files, fi, frame_index, prev_frame_end,
           manifest, unopened, fout>>
wvars == <<dirs, missing, t_scan_start, listed>>
hvars == <<flat, resample_f, outfptr, inputs_open, unreadable, failed_write>>
vars == <<stage, dt, bvars, lines, pc, exitcode, max_out_idx, rec, current_fits_name,
          curr_infptr, active_frames, cube, written, skipped, faults, hvars, wvars>>

\* ------------------------------------------------------------- arithmetic
Max(a, b) == IF a >= b THEN a ELSE b
Min(a, b) == IF a <= b THEN a ELSE b
CeilDiv(a, b) == (a + b - 1) \div b

\* (long)floor(r_start): r_start = rs/dt.
KStart(rs) == rs \div dt

KEndMutant(re) == re \div dt
\* (long)floor(r_end - 1e-9): r_end = re/dt with re, dt whole numbers and
\* dt < 1e9, so the guard only matters when dt divides re, and then it
\* lowers the floor by one.
KEnd(re) == (re - 1) \div dt

\* The pixel of plane l_idx of the image cube of fname.  Distinct planes get
\* distinct powers of 3, so a sum of weighted planes (weights <= dt <= 2)
\* identifies the weights.  In a flat field every plane is 1, and a sum of
\* weighted planes is the sum of the weights.
PlaneVal(fname, l_idx) ==
    IF flat THEN 1 ELSE 3 ^ (2 * l_idx + (IF fname = "a" THEN 0 ELSE 1))

Exit(code) == pc' = "exit" /\ exitcode' = code

\* ======================================================= manifest builder
\* ---------------------------------------------------------- scan_files
compare_filesMutant(fa, fb) ==
    IF fa.tstart < fb.tstart THEN 1 ELSE IF fa.tstart > fb.tstart THEN -1 ELSE 0
compare_files(fa, fb) ==
    IF fa.tstart < fb.tstart THEN -1 ELSE IF fa.tstart > fb.tstart THEN 1 ELSE 0

Perms(n) == {p \in [1..n -> 1..n] : \A i, j \in 1..n : i # j => p[i] # p[j]}

\* qsort(*files, *count, sizeof(FileEntry), compare_files): any arrangement
\* the comparison accepts (qsort leaves the order of equal keys open).
Sortings(list) ==
    {[i \in 1..Len(list) |-> list[p[i]]] :
        p \in {q \in Perms(Len(list)) :
                 \A i \in 1..(Len(list) - 1) :
                    compare_files(list[q[i]], list[q[i + 1]]) <= 0}}

\* start_idx, 0-based as in the code; sorted[i + 1] is (*files)[i].
StartIdxMutant(sorted, ts) ==
    LET count == Len(sorted)
        later == {i \in 0..(count - 1) : sorted[i + 1].tstart > ts}
        s0 == IF later # {}
              THEN (CHOOSE i \in later : \A j \in later : i <= j) - 1
              ELSE -1
        s1 == IF s0 = -1 /\ count > 0 /\ sorted[count].tstart <= ts
              THEN count - 1 ELSE s0
    IN IF s1 < 0 THEN 0 ELSE s1
StartIdx(sorted, ts) ==
    LET count == Len(sorted)
        later == {i \in 0..(count - 1) : sorted[i + 1].tstart > ts}
        s0 == IF later # {}
              THEN (CHOOSE i \in later : \A j \in later : i <= j) - 1
              ELSE -1
        s1 == IF s0 = -1 /\ count > 0 /\ sorted[count].tstart <= ts
              THEN count - 1 ELSE s0
        s2 == IF s1 < 0 THEN 0 ELSE s1
    IN IF s2 > 0 THEN s2 - 1 ELSE s2

\* The copy loop: from start_idx on, keep files until the first one whose
\* filename time is after tend.
RECURSIVE FilteredMutant(_, _, _)
FilteredMutant(sorted, i, te) ==
    IF i >= Len(sorted) THEN <<>>
    ELSE IF sorted[i + 1].tstart < te
         THEN <<sorted[i + 1]>> \o FilteredMutant(sorted, i + 1, te)
         ELSE <<>>
RECURSIVE Filtered(_, _, _)
Filtered(sorted, i, te) ==
    IF i >= Len(sorted) THEN <<>>
    ELSE IF sorted[i + 1].tstart <= te
         THEN <<sorted[i + 1]>> \o Filtered(sorted, i + 1, te)
         ELSE <<>>

\* ---------------------------------------------------- process_telemetry
InWindowMutant(current_frame_start, current_frame_end) ==
    current_frame_start <= tend /\ current_frame_end >= tstart
\* "if (current_frame_start < tend && current_frame_end > tstart)"
InWindow(current_frame_start, current_frame_end) ==
    current_frame_start < tend /\ current_frame_end > tstart

ManifestRowMutant(g, fs, fe, src, col1) ==
    [g |-> col1, fs |-> fs, fe |-> fe, src |-> src, l |-> col1,
     rs |-> fs - tstart, re |-> fe - tstart]
\* The row fprintf writes; rs and re are numerators over dt.
ManifestRow(g, fs, fe, src, col1) ==
    [g |-> g, fs |-> fs, fe |-> fe, src |-> src, l |-> col1,
     rs |-> fs - tstart, re |-> fe - tstart]

ParsesMutant(ln) == ln.kind \in {"data", "short"}
\* "n = sscanf(line, "%d %d %lf %lf %lf", ...); if (n < 5) continue;"
Parses(ln) == ln.kind = "data"

FrameStartMutant(prev_end, current_frame_end) == current_frame_end
\* "double current_frame_start = prev_frame_end;"
FrameStart(prev_end, current_frame_end) == prev_end

NoStartTimeMutant(prev_end) == prev_end <= 0
\* "if (prev_frame_end < 0)": no data row has been read yet.
NoStartTime(prev_end) == prev_end < 0

\* The while (fgets ...) loop over one opened file.  st = [prev, idx, out]:
\* prev_frame_end, frame_index and the rows written so far.
RECURSIVE ReadLines(_, _, _)
ReadLines(rows, filename_only, st) ==
    IF rows = <<>> THEN st
    ELSE LET ln == Head(rows) IN
         IF ln.kind = "comment" THEN ReadLines(Tail(rows), filename_only, st)
         ELSE IF ~Parses(ln) THEN ReadLines(Tail(rows), filename_only, st)
         ELSE IF NoStartTime(st.prev)
              THEN ReadLines(Tail(rows), filename_only, [st EXCEPT !.prev = ln.col5])
         ELSE IF InWindow(FrameStart(st.prev, ln.col5), ln.col5)
              THEN ReadLines(Tail(rows), filename_only,
                             [prev |-> ln.col5, idx |-> st.idx + 1,
                              out |-> Append(st.out,
                                        ManifestRow(st.idx, FrameStart(st.prev, ln.col5),
                                                    ln.col5, filename_only, ln.col1))])
         ELSE ReadLines(Tail(rows), filename_only, [st EXCEPT !.prev = ln.col5])

\* ------------------------------------------------------------ the inputs
Name(i) == <<"f1", "f2", "f3", "f4">>[i]

Tokens == [kind : {"data"}, col5 : 0..MaxT]
          \cup {[kind |-> "comment", col5 |-> 0], [kind |-> "short", col5 |-> 0]}
TokenSeqs == UNION {[1..n -> Tokens] : n \in 0..MaxRows}

\* Lines lo+1 .. hi of all, as one file: column 1 counts the data lines.
FileLines(all, lo, hi) ==
    [j \in 1..(hi - lo) |->
        [kind |-> all[lo + j].kind,
         col1 |-> Cardinality({m \in 1..(j - 1) : all[lo + m].kind # "comment"}),
         col5 |-> all[lo + j].col5]]

Cuts(n, len) ==
    {c \in [1..(n - 1) -> 0..len] : \A i \in 1..(n - 2) : c[i] <= c[i + 1]}

DiskOf(n, all, c) ==
    [nm \in {Name(i) : i \in 1..n} |->
        LET i == CHOOSE k \in 1..n : Name(k) = nm
        IN FileLines(all, IF i = 1 THEN 0 ELSE c[i - 1],
                          IF i = n THEN Len(all) ELSE c[i])]

\* The state of stage 1 before process_telemetry, the discovered files aside.
StageOneStart ==
    /\ stage = "build" /\ exitcode = "none"
    /\ files = <<>> /\ fi = 1 /\ frame_index = 0 /\ prev_frame_end = -1
    /\ manifest = <<>> /\ unopened = {} /\ fout = "NULL"
    /\ lines = <<>> /\ max_out_idx = -1 /\ rec = 1 /\ current_fits_name = ""
    /\ curr_infptr = "NULL" /\ active_frames = <<>> /\ cube = <<>>
    /\ written = <<>> /\ skipped = {} /\ faults = 0
    /\ flat = FALSE /\ resample_f = "NULL" /\ outfptr = "NULL" /\ inputs_open = 0
    /\ unreadable = {} /\ failed_write = <<>>

\* Stage 1 with the directory walk done.
BuildStart ==
    /\ StageOneStart
    /\ pc = "scan"
    /\ dirs = <<>> /\ missing = {} /\ t_scan_start = 0 /\ listed = <<>>

\* Filename times of the arbitrary timing files: before or after WinStart.
TfSet == {0, WinEnd}

\* Arbitrary timing files: any lines, in any directory order.  dt only
\* scales rs and re, which are kept as numerators over it.
InitBuild ==
    /\ BuildStart
    /\ dt = 1
    /\ tstart = WinStart /\ tend = WinEnd
    /\ \E n \in 0..MaxFiles, all \in TokenSeqs :
        \E c \in Cuts(n, Len(all)), tf \in [1..n -> TfSet] :
            /\ n = 0 => all = <<>>
            /\ found = [i \in 1..n |-> [filepath |-> Name(i), tstart |-> tf[i]]]
            /\ disk = DiskOf(n, all, c)

\* Well-formed telemetry: capture k starts at its filename time, its frames
\* end after that and no later than the start of capture k+1, every line of
\* a file is a data line, column 1 counts from 0.
RECURSIVE Ascending(_)
Ascending(S) ==
    IF S = {} THEN <<>>
    ELSE LET m == CHOOSE x \in S : \A y \in S : x <= y
         IN <<m>> \o Ascending(S \ {m})

CaptureLines(ends) ==
    [j \in 1..Len(ends) |-> [kind |-> "data", col1 |-> j - 1, col5 |-> ends[j]]]

InitOrdered ==
    /\ BuildStart
    /\ dt = 1
    /\ tstart \in 0..MaxTime /\ tend \in 0..MaxTime /\ tstart < tend
    /\ \E caps \in SUBSET (0..MaxTime), ends \in SUBSET (0..MaxTime) :
        LET n == Cardinality(caps)
            tf == Ascending(caps)
        IN /\ 1 <= n /\ n <= MaxCaptures
           /\ \A t \in ends : t > tf[1]
           /\ found = [i \in 1..n |-> [filepath |-> Name(i), tstart |-> tf[i]]]
           /\ disk = [nm \in {Name(i) : i \in 1..n} |->
                        LET i == CHOOSE k \in 1..n : Name(k) = nm
                        IN CaptureLines(Ascending(
                              {t \in ends : /\ tf[i] < t
                                            /\ (i < n => t <= tf[i + 1])}))]

\* Any timing files, with any filename times and in any directory order,
\* each holding one data line; any window.
InitScan ==
    /\ BuildStart
    /\ dt = 1
    /\ tstart \in 0..MaxTime /\ tend \in 0..MaxTime /\ tstart < tend
    /\ \E n \in 0..MaxScan :
        \E tf \in [1..n -> 0..MaxTime] :
            /\ found = [i \in 1..n |-> [filepath |-> Name(i), tstart |-> tf[i]]]
            /\ disk = [nm \in {Name(i) : i \in 1..n} |->
                         CaptureLines(<<tf[CHOOSE k \in 1..n : Name(k) = nm]>>)]

\* ------------------------------------------------------ the directory walk
\* A directory entry name is a sequence of pieces: "S" the stream name,
\* "_" an underscore, "T0" and "T1" a time hh:mm:ss of 0 or 1 tick in the
\* day, ".txt", and "x" any other text.
EntryNames ==
    {<<"S", "_", "T0", ".txt">>, <<"S", "_", "T1", ".txt">>,
     <<"S", "_", "T0", ".txt", "x">>, <<"x", "_", "T0", ".txt">>,
     <<"S", "_", "T1", "x">>, <<"S", ".txt">>, <<"x", "S", "_", "T1", ".txt">>}

\* strstr(name, piece) != NULL
Contains(name, piece) == \E i \in 1..Len(name) : name[i] = piece

\* strstr(name, sname) == name
StartsWithStream(name) == name[1] = "S"

\* parse_filename_time: the time after the last underscore, or -1.
parse_filename_time(name) ==
    LET us == {i \in 1..Len(name) : name[i] = "_"} IN
    IF us = {} THEN -1
    ELSE LET p == CHOOSE i \in us : \A j \in us : j <= i IN
         IF p < Len(name) /\ name[p + 1] = "T0" THEN 0
         ELSE IF p < Len(name) /\ name[p + 1] = "T1" THEN 1
         ELSE -1

\* The test a directory entry passes to be parsed.
Enumerated(name) == Contains(name, ".txt") /\ StartsWithStream(name)

\* tm_hour = tm_min = tm_sec = 0; timegm: the start of the day of t.
DayStart(t) == t - (t % DayLen)

WalkStartMutant(ts) == DayStart(ts)
\* "t_scan_start = t_iter_raw - 24 * 3600": the day before the day of tstart.
WalkStart(ts) == DayStart(ts) - DayLen

\* The entries of one directory in the order readdir returns them: any.
ReadDirOrders(names) ==
    {sq \in UNION {[1..n -> names] : n \in {Cardinality(names)}} :
        \A i, j \in 1..Len(sq) : i # j => sq[i] # sq[j]}

\* The FileEntry rows the inner while (readdir) loop appends for one day.
RECURSIVE Collected(_, _)
Collected(day, sq) ==
    IF sq = <<>> THEN <<>>
    ELSE IF Enumerated(Head(sq)) /\ parse_filename_time(Head(sq)) >= 0
         THEN <<[filepath |-> <<day, Head(sq)>>,
                 tstart |-> day + parse_filename_time(Head(sq))]>>
              \o Collected(day, Tail(sq))
         ELSE Collected(day, Tail(sq))

\* The days a walk can meet: 0, DayLen, ... up to MaxTime.
Days == {d \in 0..MaxTime : d % DayLen = 0}

\* Stage 1 from the start of scan_files: any window that starts on the
\* second day or later, directories that exist or not, a few entries.
InitDiscover ==
    /\ StageOneStart
    /\ pc = "walk"
    /\ dt = 1
    /\ tstart \in DayLen..MaxTime /\ tend \in DayLen..MaxTime /\ tstart < tend
    /\ missing \in SUBSET Days
    /\ \E ents \in SUBSET (Days \X EntryNames) :
        /\ Cardinality(ents) <= MaxEntries
        /\ \A e \in ents : e[1] \notin missing
        /\ dirs = [d \in Days |-> {nm \in EntryNames : <<d, nm>> \in ents}]
    /\ disk = [pth \in Days \X EntryNames |-> CaptureLines(<<MaxTime>>)]
    /\ found = <<>>
    /\ t_scan_start = WalkStart(tstart)
    /\ listed = <<>>

\* One iteration of "while (t_scan_start <= t_end_raw)": opendir of the
\* day's directory, the readdir loop if it exists, then the next day.
ListDay ==
    /\ stage = "build" /\ pc = "walk"
    /\ listed' = Append(listed, t_scan_start)
    /\ IF t_scan_start \in missing
       THEN found' = found
       ELSE \E sq \in ReadDirOrders(dirs[t_scan_start]) :
               found' = found \o Collected(t_scan_start, sq)
    /\ t_scan_start' = t_scan_start + DayLen
    /\ pc' = IF t_scan_start' <= tend THEN "walk" ELSE "scan"
    /\ UNCHANGED <<stage, dt, tstart, tend, disk, files, fi, frame_index,
                   prev_frame_end, manifest, unopened, fout, exitcode>>
    /\ UNCHANGED <<hvars, dirs, missing, lines, max_out_idx, rec, current_fits_name,
                   curr_infptr, active_frames, cube, written, skipped, faults>>

\* Timing files named <sname>_<time>.txt.
TimingNames == {<<"S", "_", "T0", ".txt">>, <<"S", "_", "T1", ".txt">>}

\* Stage 1 from the start of scan_files on well-formed telemetry: every
\* directory exists, a capture sits in the directory of the day it starts
\* in, and its frames end after its start and no later than the start of
\* the next capture, the day they end in being any.
InitLocate ==
    /\ StageOneStart
    /\ pc = "walk"
    /\ dt = 1
    /\ tstart \in DayLen..MaxTime /\ tend \in DayLen..MaxTime /\ tstart < tend
    /\ missing = {}
    /\ \E ents \in SUBSET (Days \X TimingNames), ends \in SUBSET (0..MaxTime) :
        LET StartOf(e) == e[1] + parse_filename_time(e[2])
            After(e) == {StartOf(o) : o \in {x \in ents : StartOf(x) > StartOf(e)}}
        IN /\ 1 <= Cardinality(ents) /\ Cardinality(ents) <= MaxEntries
           /\ dirs = [d \in Days |-> {nm \in EntryNames : <<d, nm>> \in ents}]
           /\ disk = [pth \in Days \X EntryNames |->
                        IF pth \in ents
                        THEN CaptureLines(Ascending(
                                {t \in ends : /\ StartOf(pth) < t
                                              /\ \A a \in After(pth) : t <= a}))
                        ELSE <<>>]
    /\ found = <<>>
    /\ t_scan_start = WalkStart(tstart)
    /\ listed = <<>>

\* ---------------------------------------------------------------- actions
\* scan_files after the directory walk: sort by filename time, then filter.
ScanFiles ==
    /\ stage = "build" /\ pc = "scan"
    /\ \E sorted \in Sortings(found) :
        files' = Filtered(sorted, StartIdx(sorted, tstart), tend)
    /\ pc' = "open"
    /\ UNCHANGED <<stage, dt, tstart, tend, found, disk, fi, frame_index,
                   prev_frame_end, manifest, unopened, fout, exitcode>>
    /\ UNCHANGED <<hvars, wvars, lines, max_out_idx, rec, current_fits_name, curr_infptr,
                   active_frames, cube, written, skipped, faults>>

\* process_telemetry: fopen of <sname>.resample.txt and the header lines.
OpenManifest ==
    /\ stage = "build" /\ pc = "open"
    /\ \E ok \in BOOLEAN :
        IF ok THEN /\ fout' = "open" /\ pc' = "files" /\ exitcode' = exitcode
                   /\ faults' = faults
        ELSE /\ faults < MaxFaults /\ faults' = faults + 1
             /\ fout' = fout /\ Exit("0")
    /\ UNCHANGED <<stage, dt, tstart, tend, found, disk, files, fi, frame_index,
                   prev_frame_end, manifest, unopened>>
    /\ UNCHANGED <<hvars, wvars, lines, max_out_idx, rec, current_fits_name, curr_infptr,
                   active_frames, cube, written, skipped>>

\* One iteration of "for (i = 0; i < count; i++)": open the file, read it.
ProcessFile ==
    /\ stage = "build" /\ pc = "files" /\ fi <= Len(files)
    /\ \E ok \in BOOLEAN :
        IF ~ok
        THEN \* "Warning: Could not open input file"; continue
             /\ faults < MaxFaults
             /\ faults' = faults + 1
             /\ unopened' = unopened \cup {files[fi].filepath}
             /\ UNCHANGED <<frame_index, prev_frame_end, manifest>>
        ELSE LET st == ReadLines(disk[files[fi].filepath], files[fi].filepath,
                                 [prev |-> prev_frame_end, idx |-> frame_index,
                                  out |-> manifest])
             IN /\ prev_frame_end' = st.prev
                /\ frame_index' = st.idx
                /\ manifest' = st.out
                /\ unopened' = unopened
                /\ faults' = faults
    /\ fi' = fi + 1
    /\ UNCHANGED <<stage, dt, tstart, tend, found, disk, files, fout, pc, exitcode>>
    /\ UNCHANGED <<hvars, wvars, lines, max_out_idx, rec, current_fits_name, curr_infptr,
                   active_frames, cube, written, skipped>>

\* fclose(fout); main returns 0.
CloseManifest ==
    /\ stage = "build" /\ pc = "files" /\ fi > Len(files)
    /\ fout' = "closed"
    /\ Exit("0")
    /\ UNCHANGED <<stage, dt, tstart, tend, found, disk, files, fi, frame_index,
                   prev_frame_end, manifest, unopened>>
    /\ UNCHANGED <<hvars, wvars, lines, max_out_idx, rec, current_fits_name, curr_infptr,
                   active_frames, cube, written, skipped, faults>>

NextBuild == ScanFiles \/ OpenManifest \/ ProcessFile \/ CloseManifest

SpecBuild == InitBuild /\ [][NextBuild]_vars

SpecOrdered == InitOrdered /\ [][NextBuild]_vars

SpecScan == InitScan /\ [][NextBuild]_vars

\* Stage 1 from the directory walk on.
NextDiscover == ListDay \/ NextBuild

SpecDiscover == InitDiscover /\ [][NextDiscover]_vars

SpecLocate == InitLocate /\ [][NextDiscover]_vars

\* ------------------------------------------------------ get_full_fits_path
\* The stream name stage 2 takes from a file name: what precedes the last
\* underscore, or the name without its extension.
SnameOf(filename) ==
    LET us == {i \in 1..Len(filename) : filename[i] = "_"} IN
    IF us # {} THEN SubSeq(filename, 1, (CHOOSE i \in us : \A j \in us : j <= i) - 1)
    ELSE SubSeq(filename, 1, Len(filename) - 1)

\* The name with ".fits" for a final ".txt", or with ".fits" appended.
FitsNameOf(filename) ==
    IF filename[Len(filename)] = ".txt"
    THEN SubSeq(filename, 1, Len(filename) - 1) \o <<".fits">>
    ELSE filename \o <<".fits">>

\* <teldir>/YYYYMMDD/<sname>/<name>.fits, the date being the UTC day of
\* timestamp.
get_full_fits_path(filename, timestamp) ==
    [day |-> DayStart(timestamp), sname |-> SnameOf(filename),
     file |-> FitsNameOf(filename)]

\* ========================================================= cube assembler
\* ------------------------------------------------ cube assembler: helpers
HasFrame(list, idx) == \E i \in 1..Len(list) : list[i].idx = idx

\* Find the entry for idx, or push a zeroed one on the head of the list.
get_output_frame(list, idx) ==
    IF HasFrame(list, idx) THEN list
    ELSE <<[idx |-> idx, data |-> 0]>> \o list

\* out_data[p] += input_buffer[p] * overlap, on the entry the lookup returns
\* (the first one from the head whose idx matches).
Accumulate(list, idx, v) ==
    LET first == CHOOSE i \in 1..Len(list) :
                    /\ list[i].idx = idx
                    /\ \A j \in 1..(i - 1) : list[j].idx # idx
    IN [list EXCEPT ![first].data = @ + v]

\* overlap of a record with plane k: fmin(r_end, k+1) - fmax(r_start, k).
Overlap(ln, k) == Min(ln.r_end, (k + 1) * dt) - Max(ln.r_start, k * dt)

\* The loop "for (k = k_start; k <= k_end; k++)" of pass 2.
RECURSIVE Distribute(_, _, _, _)
Distribute(list, ln, k, k_end) ==
    IF k > k_end THEN list
    ELSE IF Overlap(ln, k) <= 0 THEN Distribute(list, ln, k + 1, k_end)
    ELSE Distribute(Accumulate(get_output_frame(list, k), k,
                               PlaneVal(ln.fname, ln.l_idx) * Overlap(ln, k)),
                    ln, k + 1, k_end)

\* fits_write_subset on plane idx+1 of the output image.  The image store
\* rejects a plane outside 1..NAXIS3 (NAXIS3 = max_out_idx + 1); `bad` holds
\* the planes whose write the environment fails.
WriteFails(idx, bad) == idx < 0 \/ idx > max_out_idx \/ idx \in bad

EvictMutant(idx, threshold_idx) == idx < threshold_idx - 1
\* The test "curr->idx < threshold_idx" of flush_frames.
Evict(idx, threshold_idx) == idx < threshold_idx

\* The walk with an error_report that returns: the failure is noted and the
\* walk goes on to the next entry.
RECURSIVE FlushWalkMutant(_, _, _, _)
FlushWalkMutant(rest, threshold_idx, bad, r) ==
    IF rest = <<>> THEN r
    ELSE LET curr == Head(rest) IN
         IF Evict(curr.idx, threshold_idx)
         THEN IF WriteFails(curr.idx, bad)
              THEN FlushWalkMutant(Tail(rest), threshold_idx, bad,
                                   [r EXCEPT !.status = 1])
              ELSE FlushWalkMutant(Tail(rest), threshold_idx, bad,
                                   [r EXCEPT !.wr = Append(@, curr)])
         ELSE FlushWalkMutant(Tail(rest), threshold_idx, bad,
                              [r EXCEPT !.kept = Append(@, curr)])

\* flush_frames: walk the list from its head; an entry below the threshold
\* is written and unlinked, the others keep their order.  A failed write
\* ends the process inside error_report, with the entry and the rest of the
\* list still linked.  r = [kept, wr, status].
RECURSIVE FlushWalk(_, _, _, _)
FlushWalk(rest, threshold_idx, bad, r) ==
    IF rest = <<>> THEN r
    ELSE LET curr == Head(rest) IN
         IF Evict(curr.idx, threshold_idx)
         THEN IF WriteFails(curr.idx, bad)
              THEN [r EXCEPT !.status = 1, !.kept = @ \o rest]
              ELSE FlushWalk(Tail(rest), threshold_idx, bad,
                             [r EXCEPT !.wr = Append(@, curr)])
         ELSE FlushWalk(Tail(rest), threshold_idx, bad,
                        [r EXCEPT !.kept = Append(@, curr)])

flush_frames(list, threshold_idx, bad) ==
    FlushWalk(list, threshold_idx, bad, [kept |-> <<>>, wr |-> <<>>, status |-> 0])

\* The plane whose write failed in a flush that ended with a non-zero
\* status: the first entry from the head that is below the threshold and
\* whose write fails.
FailedAt(list, threshold_idx, bad) ==
    LET failing == {i \in 1..Len(list) : /\ Evict(list[i].idx, threshold_idx)
                                         /\ WriteFails(list[i].idx, bad)}
    IN list[CHOOSE i \in failing : \A j \in failing : i <= j].idx

\* The threshold flush_all_frames passes.
FlushEverything == 2147483647

flush_all_framesMutant(list, bad) == flush_frames(list, 0, bad)
\* flush_all_frames: flush_frames with the largest threshold.
flush_all_frames(list, bad) == flush_frames(list, FlushEverything, bad)

\* The output image after the planes of wr have been written, in order.
RECURSIVE WriteAll(_, _)
WriteAll(img, wr) ==
    IF wr = <<>> THEN img
    ELSE WriteAll([img EXCEPT ![Head(wr).idx] = Head(wr).data], Tail(wr))

Indices(wr) == [i \in 1..Len(wr) |-> wr[i].idx]

\* The entries a flush with this threshold would try to write.
Candidates(list, threshold_idx) ==
    {list[i].idx : i \in {j \in 1..Len(list) : Evict(list[j].idx, threshold_idx)}}

\* The environment fails at most one write of a flush.
WriteFaults(list, threshold_idx) ==
    {{}} \cup {{k} : k \in Candidates(list, threshold_idx)}

\* Pass 1: the largest k_end over the rows of the manifest, from -1.
RECURSIVE ScanMax(_, _)
ScanMax(ls, m) ==
    IF ls = <<>> THEN m
    ELSE ScanMax(Tail(ls), IF KEnd(Head(ls).r_end) > m THEN KEnd(Head(ls).r_end) ELSE m)

\* ------------------------------------------------ cube assembler: actions
RecChoice == [fname : Srcs, r_start : (0 - MaxLead)..MaxRs, dur : 0..MaxDur]

\* Row i of a manifest: g = l = i - 1.
Row(c, i) == [g_idx |-> i - 1, fname |-> c.fname, l_idx |-> i - 1,
              r_start |-> c.r_start, r_end |-> c.r_start + c.dur]

Manifests ==
    UNION {{[i \in 1..n |-> Row(c[i], i)] : c \in [1..n -> RecChoice]} : n \in 0..MaxRecs}

\* The state main() of the cube assembler starts in, the arguments aside.
ApplyStart ==
    /\ stage = "apply"
    /\ tstart = 0 /\ tend = 0 /\ found = <<>> /\ disk = <<>> /\ files = <<>>
    /\ fi = 1 /\ frame_index = 0 /\ prev_frame_end = -1
    /\ manifest = <<>> /\ unopened = {} /\ fout = "NULL"
    /\ pc = "pass1"
    /\ exitcode = "none"
    /\ max_out_idx = -1
    /\ rec = 1
    /\ current_fits_name = ""
    /\ curr_infptr = "NULL"
    /\ active_frames = <<>>
    /\ cube = <<>>
    /\ written = <<>>
    /\ skipped = {}
    /\ faults = 0
    /\ resample_f = "NULL" /\ outfptr = "NULL" /\ inputs_open = 0
    /\ failed_write = <<>>
    /\ dirs = <<>> /\ missing = {} /\ t_scan_start = 0 /\ listed = <<>>

\* Any manifest, image cubes whose planes all differ.
InitApply ==
    /\ ApplyStart
    /\ dt \in DtSet
    /\ lines \in Manifests
    /\ flat = FALSE
    /\ unreadable = {}

\* Manifests with non-decreasing rs and re > rs, some of whose image cubes
\* cannot be opened.
InitUnreadable ==
    /\ ApplyStart
    /\ dt \in DtSet
    /\ flat = FALSE
    /\ unreadable \in (SUBSET Srcs) \ {{}}
    /\ \E n \in 1..MaxChain :
        \E c \in [1..n -> [fname : Srcs, r_start : (0 - MaxLead)..MaxRs, dur : 1..MaxDur]] :
            /\ \A i \in 1..(n - 1) : c[i].r_start <= c[i + 1].r_start
            /\ lines = [i \in 1..n |-> Row(c[i], i)]

\* Row i of a gap-free manifest that starts at rs0: its rs is the re of row i-1.
RECURSIVE ChainStart(_, _, _)
ChainStart(c, rs0, i) == IF i = 1 THEN rs0 ELSE ChainStart(c, rs0, i - 1) + c[i - 1].dur

ChainRow(c, rs0, i) == [g_idx |-> i - 1, fname |-> c[i].fname, l_idx |-> i - 1,
                        r_start |-> ChainStart(c, rs0, i),
                        r_end |-> ChainStart(c, rs0, i) + c[i].dur]

\* Gap-free manifests of frames that last at least one tick, on image cubes
\* that hold a flat field.
InitChained ==
    /\ ApplyStart
    /\ dt \in DtSet
    /\ flat = TRUE
    /\ unreadable = {}
    /\ \E n \in 1..MaxChain, rs0 \in (0 - MaxLead)..MaxRs :
        \E c \in [1..n -> [fname : Srcs, dur : 1..MaxDur]] :
            lines = [i \in 1..n |-> ChainRow(c, rs0, i)]

\* fopen of the manifest, then the first pass over it: max_out_idx, and the
\* "no valid data" exit.
Pass1 ==
    /\ stage = "apply" /\ pc = "pass1"
    /\ \E ok \in BOOLEAN :
        IF ~ok
        THEN /\ faults < MaxFaults /\ faults' = faults + 1
             /\ UNCHANGED <<max_out_idx, resample_f>>
             /\ Exit("1")
        ELSE /\ faults' = faults
             /\ max_out_idx' = ScanMax(lines, -1)
             /\ IF max_out_idx' < 0
                THEN resample_f' = "closed" /\ Exit("1")
                ELSE resample_f' = "open" /\ pc' = "open1" /\ exitcode' = exitcode
    /\ UNCHANGED <<stage, dt, bvars, wvars, lines, rec, current_fits_name, curr_infptr,
                   active_frames, cube, written, skipped, flat, outfptr, inputs_open,
                   unreadable, failed_write>>

\* open_input_fits on the image cube of the first row.
OpenFirst ==
    /\ stage = "apply" /\ pc = "open1"
    /\ \E ok \in BOOLEAN :
        /\ lines[1].fname \in unreadable => ~ok
        /\ IF ok
           THEN /\ faults' = faults
                /\ inputs_open' = inputs_open + 1
                /\ pc' = "dims" /\ exitcode' = exitcode
           ELSE /\ lines[1].fname \notin unreadable => faults < MaxFaults
                /\ faults' = IF lines[1].fname \in unreadable THEN faults ELSE faults + 1
                /\ inputs_open' = inputs_open
                /\ Exit("1")
    /\ UNCHANGED <<stage, dt, bvars, wvars, lines, max_out_idx, rec, current_fits_name,
                   curr_infptr, active_frames, cube, written, skipped,
                   flat, resample_f, outfptr, unreadable, failed_write>>

\* Read NAXIS and the sizes of that image, close it, check the status and
\* the number of dimensions.
ReadDims ==
    /\ stage = "apply" /\ pc = "dims"
    /\ inputs_open' = inputs_open - 1
    /\ \E res \in {"ok", "status", "naxis"} :
        /\ res # "ok" => faults < MaxFaults
        /\ faults' = IF res = "ok" THEN faults ELSE faults + 1
        /\ CASE res = "ok" -> pc' = "create" /\ exitcode' = exitcode
             [] res = "status" -> Exit("status")
             [] res = "naxis" -> Exit("1")
    /\ UNCHANGED <<stage, dt, bvars, wvars, lines, max_out_idx, rec, current_fits_name,
                   curr_infptr, active_frames, cube, written, skipped,
                   flat, resample_f, outfptr, unreadable, failed_write>>

\* fits_create_file and fits_create_img: a zeroed W x H x (max_out_idx+1)
\* image; either call can fail, the second one with the file created.
CreateOutput ==
    /\ stage = "apply" /\ pc = "create"
    /\ \E res \in {"ok", "file", "img"} :
        /\ res # "ok" => faults < MaxFaults
        /\ faults' = IF res = "ok" THEN faults ELSE faults + 1
        /\ outfptr' = IF res = "file" THEN outfptr ELSE "open"
        /\ IF res = "ok"
           THEN /\ cube' = [k \in 0..max_out_idx |-> 0]
                /\ pc' = "loop" /\ exitcode' = exitcode
           ELSE /\ cube' = cube
                /\ Exit("status")
    /\ UNCHANGED <<stage, dt, bvars, wvars, lines, max_out_idx, rec, current_fits_name,
                   curr_infptr, active_frames, written, skipped,
                   flat, resample_f, inputs_open, unreadable, failed_write>>

FlushThresholdMutant(ln) == KEnd(ln.r_end) + 1
\* The argument pass 2 gives flush_frames before it distributes a record.
FlushThreshold(ln) == KStart(ln.r_start)

CloseCurrentMutant(n, ptr) == n
\* "if (curr_infptr) fits_close_file(curr_infptr, &status);": the number of
\* input cubes open afterwards.
CloseCurrent(n, ptr) == IF ptr # "NULL" THEN n - 1 ELSE n

SkipGateMutant(list, threshold_idx) == flush_frames(list, threshold_idx, {})
\* What the "continue" of a skipped record leaves of the gate: flush_frames
\* is not reached, nothing is written and the list is kept.
SkipGate(list, threshold_idx) == [kept |-> list, wr |-> <<>>, status |-> 0]

\* One iteration of the second pass: switch the input cube if the src
\* changed, read the plane, flush below k_start, distribute over k_start..k_end.
ProcessRecord ==
    /\ stage = "apply" /\ pc = "loop" /\ rec <= Len(lines)
    /\ LET ln == lines[rec]
           switch == ln.fname # current_fits_name
       IN \E open_ok \in BOOLEAN, read_ok \in BOOLEAN,
             bad \in WriteFaults(active_frames, FlushThreshold(ln)) :
           LET nf == (IF open_ok \/ ln.fname \in unreadable THEN 0 ELSE 1)
                     + (IF read_ok THEN 0 ELSE 1) + Cardinality(bad)
               fl == flush_frames(active_frames, FlushThreshold(ln), bad)
               sk == SkipGate(active_frames, FlushThreshold(ln))
           IN
           /\ ~switch => open_ok
           /\ (switch /\ ln.fname \in unreadable) => ~open_ok
           /\ ~open_ok => read_ok /\ bad = {}
           /\ ~read_ok => bad = {}
           /\ faults + nf <= MaxFaults
           /\ faults' = faults + nf
           /\ inputs_open' = IF switch
                             THEN CloseCurrent(inputs_open, curr_infptr)
                                  + (IF open_ok THEN 1 ELSE 0)
                             ELSE inputs_open
           /\ IF switch /\ ~open_ok
              THEN \* "Could not open ... Skipping frame."
                   /\ curr_infptr' = "NULL" /\ current_fits_name' = ""
                   /\ skipped' = skipped \cup {rec}
                   /\ rec' = rec + 1
                   /\ active_frames' = sk.kept
                   /\ written' = written \o Indices(sk.wr)
                   /\ cube' = WriteAll(cube, sk.wr)
                   /\ UNCHANGED <<pc, exitcode, failed_write>>
              ELSE /\ curr_infptr' = IF switch THEN ln.fname ELSE curr_infptr
                   /\ current_fits_name' = IF switch THEN ln.fname ELSE current_fits_name
                   /\ IF curr_infptr' = "NULL" \/ ~read_ok
                      THEN /\ skipped' = skipped \cup {rec}
                           /\ rec' = rec + 1
                           /\ active_frames' = sk.kept
                           /\ written' = written \o Indices(sk.wr)
                           /\ cube' = WriteAll(cube, sk.wr)
                           /\ UNCHANGED <<pc, exitcode, failed_write>>
                      ELSE /\ skipped' = skipped
                           /\ written' = written \o Indices(fl.wr)
                           /\ cube' = WriteAll(cube, fl.wr)
                           /\ IF fl.status # 0
                              THEN /\ Exit("status")
                                   /\ failed_write' = <<FailedAt(active_frames, FlushThreshold(ln), bad)>>
                                   /\ active_frames' = fl.kept
                                   /\ rec' = rec
                              ELSE /\ failed_write' = failed_write
                                   /\ active_frames' =
                                        Distribute(fl.kept, ln, KStart(ln.r_start),
                                                   KEnd(ln.r_end))
                                   /\ rec' = rec + 1
                                   /\ UNCHANGED <<pc, exitcode>>
    /\ UNCHANGED <<stage, dt, bvars, wvars, lines, max_out_idx, flat, resample_f, outfptr,
                   unreadable>>

\* End of the manifest: flush_all_frames, close the files, return 0.
FlushAll ==
    /\ stage = "apply" /\ pc = "loop" /\ rec > Len(lines)
    /\ \E bad \in WriteFaults(active_frames, FlushEverything) :
        LET fl == flush_all_frames(active_frames, bad) IN
        /\ faults + Cardinality(bad) <= MaxFaults
        /\ faults' = faults + Cardinality(bad)
        /\ written' = written \o Indices(fl.wr)
        /\ cube' = WriteAll(cube, fl.wr)
        /\ IF fl.status # 0
           THEN /\ Exit("status")
                /\ failed_write' = <<FailedAt(active_frames, FlushEverything, bad)>>
                /\ active_frames' = fl.kept
                /\ UNCHANGED <<curr_infptr, resample_f, outfptr, inputs_open>>
           ELSE /\ failed_write' = failed_write
                /\ active_frames' = fl.kept
                /\ inputs_open' = CloseCurrent(inputs_open, curr_infptr)
                /\ curr_infptr' = "NULL"
                /\ outfptr' = "closed"
                /\ resample_f' = "closed"
                /\ Exit("0")
    /\ UNCHANGED <<stage, dt, bvars, wvars, lines, max_out_idx, rec, current_fits_name,
                   skipped, flat, unreadable>>

NextApply == Pass1 \/ OpenFirst \/ ReadDims \/ CreateOutput \/ ProcessRecord \/ FlushAll

SpecApply == InitApply /\ [][NextApply]_vars

\* The process always takes its next step: main() is one sequential thread.
SpecApplyLive == InitApply /\ [][NextApply]_vars /\ WF_vars(NextApply)

SpecChained == InitChained /\ [][NextApply]_vars

SpecUnreadable == InitUnreadable /\ [][NextApply]_vars

\* ------------------------------------------------- cube assembler: claims
\* overlap(i, k) = max(0, min(re_i, k+1) - max(rs_i, k)), weighted plane i.
Contribution(i, k) == Max(0, Overlap(lines[i], k)) * PlaneVal(lines[i].fname, lines[i].l_idx)

RECURSIVE ExpectedUpTo(_, _)
ExpectedUpTo(n, k) == IF n = 0 THEN 0 ELSE ExpectedUpTo(n - 1, k) + Contribution(n, k)
Expected(k) == ExpectedUpTo(Len(lines), k)

MonotoneRs == \A i, j \in 1..Len(lines) : i < j => lines[i].r_start <= lines[j].r_start
ManifestInvariants == MonotoneRs /\ \A i \in 1..Len(lines) : lines[i].r_end > lines[i].r_start
NonNegativeRs == \A i \in 1..Len(lines) : lines[i].r_start >= 0

\* C1: for a manifest with non-decreasing rs and re > rs whose opens and reads
\* all succeed, once stage 2 has ended every plane k of 0..K-1 of the output
\* cube holds the sum over the records i of overlap(i, k) * plane_i.
C1_PlanesHoldOverlapSums ==
    (stage = "apply" /\ pc = "exit" /\ faults = 0 /\ ManifestInvariants)
        => \A k \in 0..max_out_idx : k \in DOMAIN cube /\ cube[k] = Expected(k)

\* The same statement for the manifests none of whose records starts before
\* tstart (rs >= 0): what the accumulator does deliver.
PlanesHoldOverlapSumsFromZero ==
    (stage = "apply" /\ pc = "exit" /\ faults = 0 /\ ManifestInvariants /\ NonNegativeRs)
        => /\ exitcode \in {"0", "1"}
           /\ \A k \in 0..max_out_idx : k \in DOMAIN cube /\ cube[k] = Expected(k)

\* C8: on the first record whose rs is smaller than the rs of the record
\* before it, stage 2 ends with a non-zero status, and that record neither
\* accumulates into a plane nor flushes one.
C8_RegressionIsFatal ==
    [][(/\ stage = "apply" /\ pc = "loop" /\ 1 < rec /\ rec <= Len(lines)
        /\ lines[rec].r_start < lines[rec - 1].r_start
        /\ \A i \in 2..(rec - 1) : lines[i - 1].r_start <= lines[i].r_start)
       => (/\ pc' = "exit" /\ exitcode' \notin {"none", "0"}
           /\ active_frames' = active_frames
           /\ written' = written /\ cube' = cube)]_vars

\* C9: over a whole run the planes are written in ascending index: each
\* plane written has a greater index than every plane written before it.
C9_WritesAscending ==
    (stage = "apply" /\ MonotoneRs /\ NonNegativeRs)
        => \A i, j \in 1..Len(written) : i < j => written[i] < written[j]

\* Longest frame of the manifest, in ticks (0 for an empty manifest).
RECURSIVE LongestUpTo(_)
LongestUpTo(n) ==
    IF n = 0 THEN 0
    ELSE Max(LongestUpTo(n - 1), lines[n].r_end - lines[n].r_start)
Longest == LongestUpTo(Len(lines))

\* C10 as stated: with non-decreasing rs the active set never holds more
\* than ceil(1/dt) + 1 entries (a tick is one second).
C10_ActiveAtMostInverseDtPlusOne ==
    (stage = "apply" /\ ManifestInvariants /\ NonNegativeRs) => Len(active_frames) <= CeilDiv(1, dt) + 1

\* C10 as amended: with non-decreasing rs the active set never holds more
\* than ceil(D/dt) + 1 entries, D the longest frame duration of the manifest.
C10_ActiveAtMostLongestSpanPlusOne ==
    (stage = "apply" /\ MonotoneRs) => Len(active_frames) <= CeilDiv(Longest, dt) + 1

\* The bound is met: a frame of D ticks that starts inside a plane.
C10_Witness ==
    /\ NonNegativeRs
    /\ stage = "apply" /\ MonotoneRs /\ rec > 1
    /\ Len(active_frames) = CeilDiv(Longest, dt) + 1
    /\ Len(active_frames) > CeilDiv(1, dt) + 1

\* ------------------------------------------------ manifest builder: claims
\* The files the directory walk found, by filename time (the times of
\* well-formed telemetry are distinct), and their data lines in that order.
Discovered == CHOOSE srt \in Sortings(found) : TRUE

RECURSIVE DataRows(_, _)
DataRows(fs, k) ==
    IF k > Len(fs) THEN <<>>
    ELSE LET nm == fs[k].filepath
             dl == SelectSeq(disk[nm], LAMBDA ln : ln.kind = "data")
         IN [j \in 1..Len(dl) |-> [src |-> nm, l |-> dl[j].col1, fe |-> dl[j].col5]]
            \o DataRows(fs, k + 1)

AllRows == DataRows(Discovered, 1)
ScanRows == DataRows(files, 1)

\* Row m of the discovered files is in the manifest exactly once, with the
\* end of the row before it as its start.
ListedOnce(m) ==
    Cardinality({n \in 1..Len(manifest) :
                    /\ manifest[n].src = AllRows[m].src /\ manifest[n].l = AllRows[m].l
                    /\ manifest[n].fe = AllRows[m].fe
                    /\ manifest[n].fs = AllRows[m - 1].fe}) = 1

\* C2: every data row of the discovered files, other than the first row of
\* the scan, whose interval [end of the row before it, its own end)
\* intersects [tstart, tend) is in the manifest exactly once.
C2_EveryOverlappingRowListed ==
    (stage = "build" /\ pc = "exit" /\ fout = "closed" /\ unopened = {})
        => \A m \in 2..Len(AllRows) :
              (/\ AllRows[m - 1].fe < tend /\ AllRows[m].fe > tstart
               /\ (ScanRows # <<>> => AllRows[m] # ScanRows[1]))
                 => ListedOnce(m)

\* C3: every row of the manifest overlaps the query window.
C3_RowsOverlapWindow ==
    stage = "build" =>
        \A n \in 1..Len(manifest) : manifest[n].fs < tend /\ manifest[n].fe > tstart

\* Rows on both edges: one starting before tstart, one ending after tend.
C3_Witness ==
    /\ stage = "build" /\ pc = "exit"
    /\ \E n, m \in 1..Len(manifest) :
          /\ manifest[n].fs < tstart /\ manifest[n].fe > tstart
          /\ manifest[m].fs < tend /\ manifest[m].fe > tend

\* Data lines of the timing files the walk found.
EndsOf(nm) == LET dl == SelectSeq(disk[nm], LAMBDA ln : ln.kind = "data")
              IN [j \in 1..Len(dl) |-> dl[j].col5]

\* Time-ordered telemetry: inside a file the end times of the data lines do
\* not decrease, and no data line ends before a data line of another file
\* whose filename time is not later.
TimeOrdered ==
    /\ \A i \in 1..Len(found) :
          LET e == EndsOf(found[i].filepath)
          IN \A a, b \in 1..Len(e) : a < b => e[a] <= e[b]
    /\ \A i, j \in 1..Len(found) :
          (i # j /\ found[i].tstart <= found[j].tstart)
            => LET ei == EndsOf(found[i].filepath)
                   ej == EndsOf(found[j].filepath)
               IN \A a \in 1..Len(ei), b \in 1..Len(ej) : ei[a] <= ej[b]

\* The same, with no two data lines ending at the same time.
StrictlyTimeOrdered ==
    /\ TimeOrdered
    /\ \A i \in 1..Len(found) :
          LET e == EndsOf(found[i].filepath)
          IN \A a, b \in 1..Len(e) : a < b => e[a] < e[b]
    /\ \A i, j \in 1..Len(found) :
          i # j => LET ei == EndsOf(found[i].filepath)
                       ej == EndsOf(found[j].filepath)
                   IN \A a \in 1..Len(ei), b \in 1..Len(ej) : ei[a] # ej[b]

SomeLine(kind) ==
    \E i \in 1..Len(files) :
        \E j \in 1..Len(disk[files[i].filepath]) : disk[files[i].filepath][j].kind = kind

\* C4 as stated: two consecutive manifest rows with the same src chain, the
\* later fs being the earlier fe, whatever the lines of the file.
C4_SameSrcRowsChain ==
    stage = "build" =>
        \A n \in 1..(Len(manifest) - 1) :
            manifest[n].src = manifest[n + 1].src => manifest[n + 1].fs = manifest[n].fe

\* C4 as amended: they chain when the telemetry is time-ordered, whatever
\* malformed and comment lines lie between the data lines.
C4_SameSrcRowsChainWhenTimeOrdered ==
    (stage = "build" /\ TimeOrdered) => C4_SameSrcRowsChain

\* Two rows of one file with a malformed line between their data lines.
C4_Witness ==
    /\ stage = "build" /\ pc = "exit" /\ TimeOrdered
    /\ SomeLine("short")
    /\ \E n \in 1..(Len(manifest) - 1) :
          /\ manifest[n].src = manifest[n + 1].src
          /\ manifest[n + 1].l > manifest[n].l + 1

\* C5: g is 0 at the first row and grows by exactly 1 per row.
C5_GlobalIndexContiguous ==
    stage = "build" =>
        /\ frame_index = Len(manifest)
        /\ \A n \in 1..Len(manifest) : manifest[n].g = n - 1

\* Rows of two files, with a row before the window and a malformed line.
C5_Witness ==
    /\ stage = "build" /\ pc = "exit" /\ Len(manifest) >= 2
    /\ \E n \in 1..(Len(manifest) - 1) : manifest[n].src # manifest[n + 1].src
    /\ manifest[1].l > 1
    /\ SomeLine("short")

\* C6 as stated: fs does not decrease along the manifest, whatever end
\* times the scanned files hold.
C6_StartsNonDecreasing ==
    stage = "build" =>
        \A n \in 1..(Len(manifest) - 1) : manifest[n].fs <= manifest[n + 1].fs

\* C6 as amended: fs does not decrease when the telemetry is time-ordered.
C6_StartsNonDecreasingWhenTimeOrdered ==
    (stage = "build" /\ TimeOrdered) => C6_StartsNonDecreasing

\* Rows of two files in filename-time order, the directory order reversed.
C6_Witness ==
    /\ stage = "build" /\ pc = "exit" /\ TimeOrdered
    /\ Len(found) = 2 /\ found[1].tstart > found[2].tstart
    /\ \E n \in 1..(Len(manifest) - 1) :
          /\ manifest[n].src = found[2].filepath /\ manifest[n + 1].src = found[1].filepath
          /\ manifest[n].fs < manifest[n + 1].fs

\* C7 as stated: every row has fs < fe, hence re > rs.
C7_StartBeforeEnd ==
    stage = "build" =>
        \A n \in 1..Len(manifest) :
            manifest[n].fs < manifest[n].fe /\ manifest[n].re > manifest[n].rs

\* C7 as amended: every row has fs < fe and re > rs when the telemetry is
\* time-ordered and no two data lines end at the same time.
C7_StartBeforeEndWhenStrictlyOrdered ==
    (stage = "build" /\ StrictlyTimeOrdered) => C7_StartBeforeEnd

C7_Witness ==
    /\ stage = "build" /\ pc = "exit" /\ StrictlyTimeOrdered
    /\ Len(manifest) >= 2 /\ manifest[1].fs < tstart

\* --------------------------------------------------- cube assembler: weights
\* Each record starts where the record before it ends, and lasts.
Chained ==
    /\ lines # <<>>
    /\ \A i \in 1..Len(lines) : lines[i].r_end > lines[i].r_start
    /\ \A i \in 2..Len(lines) : lines[i].r_start = lines[i - 1].r_end

\* [k, k+1] lies inside [rs of the first record, re of the last record].
Covered(k) == lines[1].r_start <= k * dt /\ (k + 1) * dt <= lines[Len(lines)].r_end

\* On flat-field input the pixel of a plane is the sum of the weights it
\* received, a numerator over dt: dt stands for 1.
WeightsSumToOne ==
    \A k \in 0..max_out_idx :
        /\ k \in DOMAIN cube
        /\ Covered(k) => cube[k] = dt
        /\ ~Covered(k) => cube[k] < dt

\* C11: for a gap-free manifest, when stage 2 has ended without an I/O
\* failure, the weights accumulated into every plane k with [k, k+1] inside
\* [rs of the first record, re of the last] sum to exactly 1, and those of a
\* plane only partly covered to less than 1.
C11_CoveredPlanesWeighOne ==
    (stage = "apply" /\ flat /\ Chained /\ pc = "exit" /\ faults = 0) => WeightsSumToOne

\* The same for the gap-free manifests that start at or after tstart.
CoveredPlanesWeighOneFromZero ==
    (stage = "apply" /\ flat /\ Chained /\ NonNegativeRs /\ pc = "exit" /\ faults = 0)
        => exitcode = "0" /\ WeightsSumToOne

\* ------------------------------------------- cube assembler: unreadable cube
\* What the records whose image cube opens contribute to plane k.
RECURSIVE ReadableUpTo(_, _)
ReadableUpTo(n, k) ==
    IF n = 0 THEN 0
    ELSE ReadableUpTo(n - 1, k)
         + (IF lines[n].fname \in unreadable THEN 0 ELSE Contribution(n, k))

\* Every record ends after tstart (re > 0), as in a manifest of stage 1, and
\* some record names a src whose image cube cannot be opened.
SomeUnreadable ==
    /\ \A i \in 1..Len(lines) : lines[i].r_end > 0
    /\ \E i \in 1..Len(lines) : lines[i].fname \in unreadable

\* C12: when the image cube of a src other than that of the first record
\* cannot be opened, stage 2 skips exactly the records of that src, one by
\* one, writes to every plane what the other records contribute, and ends
\* with status 0.
C12_UnreadableCubeIsSkipped ==
    (/\ stage = "apply" /\ pc = "exit" /\ faults = 0 /\ ManifestInvariants
     /\ SomeUnreadable /\ lines[1].fname \notin unreadable)
        => /\ exitcode = "0"
           /\ skipped = {i \in 1..Len(lines) : lines[i].fname \in unreadable}
           /\ \A k \in 0..max_out_idx :
                 k \in DOMAIN cube /\ cube[k] = ReadableUpTo(Len(lines), k)

\* The same for the manifests none of whose records starts before tstart.
UnreadableCubeIsSkippedFromZero ==
    (/\ stage = "apply" /\ pc = "exit" /\ faults = 0 /\ ManifestInvariants
     /\ NonNegativeRs /\ SomeUnreadable /\ lines[1].fname \notin unreadable)
        => /\ exitcode = "0"
           /\ skipped = {i \in 1..Len(lines) : lines[i].fname \in unreadable}
           /\ \A k \in 0..max_out_idx :
                 k \in DOMAIN cube /\ cube[k] = ReadableUpTo(Len(lines), k)

\* ---------------------------------------------- cube assembler: write failure
\* Position in the active list of the entry whose write failed.
FailedPos == CHOOSE i \in 1..Len(active_frames) : active_frames[i].idx = failed_write[1]

\* C13: once the write of a plane has failed in a flush, stage 2 has ended
\* with a non-zero status, the entries the flush had not reached yet are
\* not written (with non-decreasing rs they were never written before), and
\* no step follows the end of the process.
C13_WriteFailureIsFatal ==
    /\ [](failed_write # <<>>
           => /\ pc = "exit" /\ exitcode = "status"
              /\ \E i \in 1..Len(active_frames) : active_frames[i].idx = failed_write[1]
              /\ MonotoneRs =>
                   \A j \in (FailedPos + 1)..Len(active_frames) :
                       \A n \in 1..Len(written) : written[n] # active_frames[j].idx)
    /\ [][failed_write = <<>>]_vars

\* A write the environment failed, with a plane behind it in the list that
\* the same flush would have written.
C13_Witness ==
    /\ stage = "apply" /\ failed_write # <<>> /\ failed_write[1] >= 0
    /\ MonotoneRs /\ NonNegativeRs /\ faults = 1
    /\ FailedPos < Len(active_frames)
    /\ rec > Len(lines)

\* ------------------------------------------- manifest builder: file selection
\* The discovered files in the orders that are ascending in filename time.
AscendingOrders ==
    {[i \in 1..Len(found) |-> found[q[i]]] :
        q \in {qq \in Perms(Len(found)) :
                 \A i \in 1..(Len(found) - 1) :
                    found[qq[i]].tstart <= found[qq[i + 1]].tstart}}

\* The run of srt the selection rule names, 1-based: from max(p - 1, 1),
\* p the greatest index with T_f <= tstart (from 1 when there is none), to
\* the last index with T_f <= tend.
SelectedRun(srt) ==
    LET atOrBefore == {i \in 1..Len(srt) : srt[i].tstart <= tstart}
        p == IF atOrBefore = {} THEN 0
             ELSE CHOOSE i \in atOrBefore : \A j \in atOrBefore : j <= i
        first == IF p > 1 THEN p - 1 ELSE 1
        upTo == {i \in 1..Len(srt) : srt[i].tstart <= tend}
        last == IF upTo = {} THEN 0
                ELSE CHOOSE i \in upTo : \A j \in upTo : j <= i
    IN IF last < first THEN <<>> ELSE SubSeq(srt, first, last)

FoundSet == {found[i] : i \in 1..Len(found)}
ScannedSet == {files[i] : i \in 1..Len(files)}

EndsWithTxt(name) == name[Len(name)] = ".txt"

\* C16: every file of the scan list has a name that starts with the stream
\* name and ends with .txt, and no entry whose name does not end with .txt
\* is taken from a directory.
C16_ScannedNamesEndWithTxt ==
    stage = "build" =>
        /\ \A i \in 1..Len(files) :
              StartsWithStream(files[i].filepath[2]) /\ EndsWithTxt(files[i].filepath[2])
        /\ \A i \in 1..Len(found) : EndsWithTxt(found[i].filepath[2])

\* The part of C16 on the start of the name.
ScannedNamesStartWithStream ==
    stage = "build" =>
        \A i \in 1..Len(found) :
            /\ StartsWithStream(found[i].filepath[2])
            /\ Contains(found[i].filepath[2], ".txt")

\* The days D with [D, D + DayLen) meeting [tstart - DayLen, tend].
RECURSIVE DaysToList(_)
DaysToList(d) ==
    IF d > tend THEN <<>>
    ELSE (IF d + DayLen > tstart - DayLen THEN <<d>> ELSE <<>>) \o DaysToList(d + DayLen)

RECURSIVE RunFiles(_, _, _)
RunFiles(fs, k, st) ==
    IF k > Len(fs) THEN st.out
    ELSE RunFiles(fs, k + 1, ReadLines(disk[fs[k].filepath], fs[k].filepath, st))

RunManifest(srt) ==
    RunFiles(Filtered(srt, StartIdx(srt, tstart), tend), 1,
             [prev |-> -1, idx |-> 0, out |-> <<>>])

\* C18: the manifest of a run that opened every file is the manifest of
\* every other run on the same arguments, directory contents and file
\* contents, whatever the order of the directory listing and whatever
\* order the sort leaves files of equal filename time in.
C18_ManifestIsDetermined ==
    (stage = "build" /\ pc = "exit" /\ fout = "closed" /\ unopened = {})
        => \A srt \in Sortings(found) : manifest = RunManifest(srt)

\* The same when no two discovered files have the same filename time.
ManifestIsDeterminedWithoutTies ==
    (/\ stage = "build" /\ pc = "exit" /\ fout = "closed" /\ unopened = {}
     /\ \A i, j \in 1..Len(found) : i # j => found[i].tstart # found[j].tstart)
        => \A srt \in Sortings(found) : manifest = RunManifest(srt)

\* ------------------------------------------------ cube assembler: file handles
\* C19: at every point of stage 2 at most one input image cube is open; the
\* image opened in pass 1 for the sizes is closed before the output is
\* created and before pass 2 opens its first input, and the handle of the
\* previous src is closed before the image of a new src is opened.
C19_AtMostOneInputOpen ==
    stage = "apply" =>
        /\ inputs_open \in {0, 1}
        /\ pc = "create" => inputs_open = 0
        /\ (pc = "loop" /\ rec = 1) => inputs_open = 0
        /\ (pc = "loop" /\ rec > 1) => inputs_open = (IF curr_infptr = "NULL" THEN 0 ELSE 1)

\* Pass 2 has read a plane of one image and then switched to the image of
\* another src, which is the one open now.
C19_Witness ==
    /\ stage = "apply" /\ pc = "loop" /\ rec > 2
    /\ lines[rec - 2].fname # lines[rec - 1].fname
    /\ (rec - 2) \notin skipped /\ (rec - 1) \notin skipped
    /\ curr_infptr = lines[rec - 1].fname
    /\ inputs_open = 1

\* C20: on every exit path of stage 2, the error exits included, the
\* manifest, the current input cube and the output cube, if opened, have
\* been closed when the process terminates.
C20_EveryFileClosedAtExit ==
    (stage = "apply" /\ pc = "exit") =>
        /\ resample_f # "open"
        /\ outfptr # "open"
        /\ inputs_open = 0

\* The exits that do close what they opened: "No valid data" and return 0.
FilesClosedAtNormalExit ==
    (stage = "apply" /\ pc = "exit" /\ (exitcode = "0" \/ max_out_idx < 0)) =>
        /\ resample_f # "open"
        /\ outfptr # "open"
        /\ inputs_open = 0

\* ------------------------------------------- cube assembler: plane indices
\* The rows stage 1 writes end after tstart: re > 0.
EndsAfterStart == \A i \in 1..Len(lines) : lines[i].r_end > 0

PlaneIndicesInRange ==
    /\ \A i \in 1..Len(active_frames) :
          0 <= active_frames[i].idx /\ active_frames[i].idx <= max_out_idx
    /\ \A i \in 1..Len(written) : 0 <= written[i] /\ written[i] <= max_out_idx

\* C21: on a gap-free manifest whose rows end after tstart, the first of
\* which may start before tstart, every plane index stage 2 creates in the
\* active set or writes to the output cube lies in 0 .. K-1, K = max_out_idx + 1.
C21_PlaneIndicesInRange ==
    (stage = "apply" /\ Chained /\ EndsAfterStart) => PlaneIndicesInRange

\* The same for manifests whose first row does not start before tstart.
PlaneIndicesInRangeFromZero ==
    (stage = "apply" /\ Chained /\ EndsAfterStart /\ NonNegativeRs) => PlaneIndicesInRange

\* ------------------------------------------- manifest builder: unopened files
\* Column 1 of the first data row of a timing file that has one.
HasDataRow(path) == \E j \in 1..Len(disk[path]) : Parses(disk[path][j])
FirstDataRow(path) ==
    disk[path][CHOOSE j \in 1..Len(disk[path]) :
                  /\ Parses(disk[path][j])
                  /\ \A m \in 1..(j - 1) : ~Parses(disk[path][m])]

\* No row of the manifest names a file that could not be opened.
NoRowOfUnopenedFile ==
    stage = "build" => \A i \in 1..Len(manifest) : manifest[i].src \notin unopened

\* The first data row of the file opened right after one that could not be
\* opened is not in the manifest.
NoRowAcrossUnopenedFile ==
    \A j \in 2..Len(files) :
        (/\ files[j - 1].filepath \in unopened
         /\ files[j].filepath \notin unopened
         /\ HasDataRow(files[j].filepath))
            => ~\E i \in 1..Len(manifest) :
                    /\ manifest[i].src = files[j].filepath
                    /\ manifest[i].l = FirstDataRow(files[j].filepath).col1
                    /\ manifest[i].fe = FirstDataRow(files[j].filepath).col5

\* C22: when a timing file of the scan list cannot be opened, the manifest
\* has no row with that file as src, and the first data row of the next
\* file that opens is not emitted: its start time would come from a file
\* before the unopened one.
C22_UnopenedFileBreaksTheChain ==
    (stage = "build" /\ pc = "exit" /\ fout = "closed")
        => NoRowOfUnopenedFile /\ NoRowAcrossUnopenedFile

\* prev_frame_end is undefined after a failed fopen of a timing file.
OpenFailureResetsPrevEnd ==
    [][unopened' # unopened => (prev_frame_end' = -1 /\ manifest' = manifest)]_vars

\* ------------------------------------------- manifest builder: file boundary
LastDataRow(path) ==
    disk[path][CHOOSE j \in 1..Len(disk[path]) :
                  /\ Parses(disk[path][j])
                  /\ \A m \in (j + 1)..Len(disk[path]) : ~Parses(disk[path][m])]

\* The step of process_telemetry that reads file B = files[fi] right after
\* it read file A = files[fi - 1], both holding a valid data row.
ReadsAfterOpenedFile ==
    /\ stage = "build" /\ pc = "files" /\ fi' = fi + 1 /\ fi >= 2
    /\ files[fi - 1].filepath \notin unopened
    /\ files[fi].filepath \notin unopened'
    /\ HasDataRow(files[fi - 1].filepath)
    /\ HasDataRow(files[fi].filepath)

\* C23: reading file B right after file A, both opened, the record of the
\* first valid data row of B, when it overlaps the window, is the first row
\* the step appends: its fs is the fe of the last valid data row of A and
\* its src is B; when it does not overlap, the step appends no row for it.
C23_FirstRowOfNextFileChains ==
    [][ReadsAfterOpenedFile =>
         LET A == files[fi - 1].filepath
             B == files[fi].filepath
             a == LastDataRow(A).col5
             b == FirstDataRow(B)
         IN IF InWindow(a, b.col5)
            THEN /\ Len(manifest') > Len(manifest)
                 /\ manifest'[Len(manifest) + 1].fs = a
                 /\ manifest'[Len(manifest) + 1].fe = b.col5
                 /\ manifest'[Len(manifest) + 1].l = b.col1
                 /\ manifest'[Len(manifest) + 1].src = B
                 /\ manifest'[Len(manifest) + 1].src # A
            ELSE \A i \in (Len(manifest) + 1)..Len(manifest') :
                    manifest'[i].l # b.col1]_vars

\* Two files were read one after the other and the manifest holds the row
\* of the first data row of the second, starting where the first file ended.
C23_Witness ==
    /\ stage = "build" /\ pc = "exit" /\ fout = "closed" /\ unopened = {}
    /\ Len(files) = 2
    /\ HasDataRow(files[1].filepath) /\ HasDataRow(files[2].filepath)
    /\ \E i \in 1..Len(manifest) :
          /\ manifest[i].src = files[2].filepath
          /\ manifest[i].l = FirstDataRow(files[2].filepath).col1
          /\ manifest[i].fs = LastDataRow(files[1].filepath).col5
          /\ manifest[i].fs # manifest[i].fe

\* ------------------------------------------------ cube assembler: flush gate
\* The step of pass 2 that read record rec and distributed it.
DistributesRecord ==
    stage = "apply" /\ pc = "loop" /\ rec' = rec + 1 /\ rec \notin skipped'

\* The plane indices the step wrote to the output cube.
NewlyWritten == {written'[j] : j \in (Len(written) + 1)..Len(written')}

\* C24: when pass 2 distributes a record with k0 = floor(rs), every entry
\* that was active with k < k0 has been written to plane k with the sum it
\* held and is no longer active, and every entry that was active with
\* k >= k0 is not written and stays active, holding what it held plus what
\* this record adds to plane k.
C24_FlushGate ==
    [][DistributesRecord =>
         LET ln == lines[rec]
             k0 == KStart(ln.r_start)
         IN /\ \A i \in 1..Len(active_frames) :
                 LET e == active_frames[i] IN
                 IF e.idx < k0
                 THEN /\ e.idx \in NewlyWritten
                      /\ cube'[e.idx] = e.data
                      /\ ~HasFrame(active_frames', e.idx)
                 ELSE /\ e.idx \notin NewlyWritten
                      /\ e.idx \in DOMAIN cube => cube'[e.idx] = cube[e.idx]
                      /\ \E m \in 1..Len(active_frames') :
                            /\ active_frames'[m].idx = e.idx
                            /\ active_frames'[m].data =
                                 e.data + PlaneVal(ln.fname, ln.l_idx)
                                          * Max(0, Overlap(ln, e.idx))
            /\ \A k \in NewlyWritten : HasFrame(active_frames, k) /\ k < k0]_vars

\* Pass 2 has distributed a record whose gate wrote one plane and kept
\* another, which holds more than that record added to it.
C24_Witness ==
    /\ stage = "apply" /\ pc = "loop" /\ rec > 1 /\ (rec - 1) \notin skipped
    /\ written # <<>>
    /\ written[Len(written)] < KStart(lines[rec - 1].r_start)
    /\ \E i \in 1..Len(active_frames) :
          /\ active_frames[i].idx >= KStart(lines[rec - 1].r_start)
          /\ active_frames[i].data >
               PlaneVal(lines[rec - 1].fname, lines[rec - 1].l_idx)
               * Max(0, Overlap(lines[rec - 1], active_frames[i].idx))

\* ------------------------------------------------ cube assembler: skipped record
\* C25: a record skipped because its image cube cannot be opened or its
\* plane cannot be read triggers no flush, creates no active entry and
\* changes no accumulator: the active set and the output cube are as they
\* were, and pass 2 goes on with the next record.
C25_SkippedRecordChangesNothing ==
    [][(stage = "apply" /\ rec \in skipped' /\ rec \notin skipped) =>
         /\ active_frames' = active_frames
         /\ cube' = cube
         /\ written' = written
         /\ rec' = rec + 1
         /\ pc' = "loop" /\ exitcode' = "none"]_vars

\* A record was skipped while an entry below its k0 was active, and the
\* entry is still active and unwritten.
C25_Witness ==
    /\ stage = "apply" /\ pc = "loop" /\ rec > 1 /\ (rec - 1) \in skipped
    /\ written = <<>>
    /\ \E i \in 1..Len(active_frames) :
          /\ active_frames[i].idx >= 0
          /\ active_frames[i].idx < KStart(lines[rec - 1].r_start)

\* ------------------------------------------------ cube assembler: plane boundary
\* The entry for plane k of a list, as a set: empty when the plane is absent.
EntryOf(list, k) == {list[i].data : i \in {j \in 1..Len(list) : list[j].idx = k}}

\* C26: a record whose re is a whole number n of planes has k1 = n - 1, and
\* distributing it neither creates an active entry for plane n nor changes
\* the accumulator of one that is active.
C26_BoundaryFrameStaysBelow ==
    [][(DistributesRecord /\ lines[rec].r_end % dt = 0) =>
         LET n == lines[rec].r_end \div dt IN
         /\ KEnd(lines[rec].r_end) = n - 1
         /\ EntryOf(active_frames', n) \subseteq EntryOf(active_frames, n)
         /\ n >= KStart(lines[rec].r_start)
               => EntryOf(active_frames', n) = EntryOf(active_frames, n)]_vars

\* Pass 2 has distributed a frame that ends on the boundary of plane n:
\* plane n - 1 is active and plane n is not.
C26_Witness ==
    /\ stage = "apply" /\ pc = "loop" /\ rec > 1 /\ (rec - 1) \notin skipped
    /\ lines[rec - 1].r_end % dt = 0
    /\ lines[rec - 1].r_end > lines[rec - 1].r_start
    /\ lines[rec - 1].r_end > 0
    /\ HasFrame(active_frames, (lines[rec - 1].r_end \div dt) - 1)
    /\ ~HasFrame(active_frames, lines[rec - 1].r_end \div dt)

\* ------------------------------------------- manifest builder: the first row
\* The files of the scan list that opened, and their valid data rows in the
\* order process_telemetry reads them.
OpenedFiles == SelectSeq(files, LAMBDA f : f.filepath \notin unopened)
OpenedRows == DataRows(OpenedFiles, 1)

\* One row for every valid data row after the first whose interval, from
\* the end of the valid row before it, overlaps the window.
RECURSIVE RowsAfterFirst(_, _)
RowsAfterFirst(D, i) ==
    IF i > Len(D) THEN <<>>
    ELSE (IF D[i - 1].fe < tend /\ D[i].fe > tstart
          THEN <<[src |-> D[i].src, l |-> D[i].l, fs |-> D[i - 1].fe, fe |-> D[i].fe]>>
          ELSE <<>>)
         \o RowsAfterFirst(D, i + 1)

ManifestIntervals ==
    [n \in 1..Len(manifest) |->
        [src |-> manifest[n].src, l |-> manifest[n].l,
         fs |-> manifest[n].fs, fe |-> manifest[n].fe]]

\* C27: the first valid data row of the whole scan is not emitted and only
\* seeds prev_frame_end, which stays defined from then on: every later
\* valid row of every opened file has the end of the valid row before it
\* as its start and is emitted when that interval overlaps the window.
C27_OnlyFirstRowWithheld ==
    /\ []((stage = "build" /\ pc = "exit" /\ fout = "closed")
             => ManifestIntervals = RowsAfterFirst(OpenedRows, 2))
    /\ [][(stage = "build" /\ prev_frame_end >= 0) => prev_frame_end' >= 0]_vars

\* The first valid row of the scan lies in the window and is not in the
\* manifest; the row after it is, starting where the first one ended.
C27_Witness ==
    /\ stage = "build" /\ pc = "exit" /\ fout = "closed"
    /\ Len(OpenedRows) >= 3
    /\ OpenedRows[1].fe > tstart /\ OpenedRows[1].fe < tend
    /\ OpenedRows[1].src # OpenedRows[3].src
    /\ Len(manifest) >= 2
    /\ manifest[1].fs = OpenedRows[1].fe
    /\ manifest[1].src = OpenedRows[2].src /\ manifest[1].l = OpenedRows[2].l
    /\ \A n \in 1..Len(manifest) :
          ~(manifest[n].src = OpenedRows[1].src /\ manifest[n].l = OpenedRows[1].l)

\* ------------------------------------------------ cube assembler: one write
\* C28: for a manifest with non-decreasing rs, no plane index is written to
\* the output cube twice, and no index that has been written is active
\* again: nothing is accumulated into a plane after its flush.
C28_PlanesWrittenOnce ==
    (stage = "apply" /\ MonotoneRs) =>
        /\ \A i, j \in 1..Len(written) : i # j => written[i] # written[j]
        /\ \A i \in 1..Len(active_frames) :
              \A j \in 1..Len(written) : active_frames[i].idx # written[j]

\* Two records with non-decreasing rs have been distributed; planes have
\* been written and a later plane is active.
C28_Witness ==
    /\ stage = "apply" /\ pc = "loop" /\ MonotoneRs
    /\ rec > 2 /\ skipped = {}
    /\ written # <<>> /\ active_frames # <<>>
    /\ lines[1].r_end > lines[2].r_start

\* ------------------------------------------------ cube assembler: termination
\* The plane indices that received a contribution of a record that was read.
Contributed ==
    {k \in (0 - MaxLead - 1)..(MaxRs + MaxDur + 1) :
        \E i \in 1..Len(lines) :
            /\ i \notin skipped
            /\ KStart(lines[i].r_start) <= k /\ k <= KEnd(lines[i].r_end)
            /\ Overlap(lines[i], k) > 0}

\* C29: stage 2 terminates, and when it ends with status 0 the active set
\* is empty and every plane index that received a contribution has been
\* written to the output cube.
C29_TerminatesWithEverythingWritten ==
    /\ <>(pc = "exit")
    /\ []((stage = "apply" /\ pc = "exit" /\ exitcode = "0")
            => /\ active_frames = <<>>
               /\ \A k \in Contributed : \E j \in 1..Len(written) : written[j] = k)

\* A run over two records ended with status 0 and planes written.
C29_Witness ==
    /\ stage = "apply" /\ pc = "exit" /\ exitcode = "0"
    /\ Len(lines) = 2 /\ skipped = {}
    /\ Cardinality(Contributed) >= 2

\* ------------------------------------------------ the two stages: file location
\* The directory stage 1 found the timing file of a row in, and the one
\* stage 2 looks for its image cube in.
DiscoveredIn(row) == [day |-> row.src[1], sname |-> <<"S">>]
ResolvedIn(row) ==
    [day |-> get_full_fits_path(row.src[2], row.fs).day,
     sname |-> get_full_fits_path(row.src[2], row.fs).sname]

\* C30: for every row of the manifest, the image cube path stage 2 resolves
\* from (src, fs) lies in the directory <teldir>/YYYYMMDD/<stream>/ in
\* which stage 1 found the timing file src, also when that directory is of
\* the day before the day of fs.
C30_StagesAgreeOnDirectory ==
    stage = "build" =>
        \A n \in 1..Len(manifest) : ResolvedIn(manifest[n]) = DiscoveredIn(manifest[n])

\* They agree on the rows whose fs lies in the day of the directory.
StagesAgreeWithinTheDay ==
    stage = "build" =>
        \A n \in 1..Len(manifest) :
            DayStart(manifest[n].fs) = manifest[n].src[1]
                => ResolvedIn(manifest[n]) = DiscoveredIn(manifest[n])

====
